---- MODULE Spec2Model ----
(***************************************************************************)
(* The User CRUD resolvers of src/src/graphql/resolvers/userResolver.ts    *)
(* over the "users" table declared in src/README.md (userModel.ts).        *)
(*                                                                         *)
(* Every resolver is an async function: it runs up to an awaited storage   *)
(* call, the database executes that one statement atomically, and the      *)
(* resolver resumes later.  Requests are served concurrently, so the       *)
(* statements of different requests interleave.  One action of the model   *)
(* is one statement executed by the database together with the resolver    *)
(* code that runs on its result, up to the next statement.                 *)
(***************************************************************************)
EXTENDS Integers, FiniteSets, Sequences

\* ---------------------------------------------------------------- bounds
MaxId == 2                 \* values the id sequence may hand out

Procs == {1, 2}            \* the slots of the calls that are between two awaits
Ids == 1..MaxId            \* well-formed keys a client may ask for
Names == {"a", "b"}
Emails == {"x", "y"}

\* ----------------------------------------------------- optional arguments
Undefined == "undefined"   \* argument omitted from the GraphQL call
Null == "null"             \* argument given as null
Falsy == {Undefined, Null, ""}
OptNames == Names \cup Falsy
OptEmails == Emails \cup Falsy

\* `if (name)`, `if (email)`: JavaScript truthiness of string | null | undefined
Truthy(v) == v \notin Falsy

VARIABLES
  table,     \* the rows of "users"
  nextId,    \* the next value of the id sequence
  pc,        \* where each call stands: "idle", "save", "destroy"
  user,      \* `const user` of each call in flight
  reply,     \* the response the last step sent to its client, if it sent one
  created,   \* how many createUser calls have succeeded
  removed    \* how many rows destroy() has deleted

vars == <<table, nextId, pc, user, reply, created, removed>>

\* ------------------------------------------------------------ the model
User(i, n, e) == [id |-> i, name |-> n, email |-> e]

NoUser == {}               \* null: a User | null is a set of at most one row

Reply(o, er, u, b, l) == [op |-> o, err |-> er, user |-> u, ok |-> b, users |-> l]
NoReply == Reply("none", "", NoUser, FALSE, <<>>)

\* the email column declared without unique: true
EmailTakenNever(tbl, id, email) == FALSE

\* unique: true on email: another row holds the email
EmailTaken(tbl, id, email) == \E u \in tbl : u.email = email /\ u.id # id

\* a sequence that hands out the same value again
nextvalSame(seq) == seq

\* the autoIncrement id every Model has: the sequence's next value
nextval(seq) == seq + 1

\* a lookup that compares the key with >= instead of =
findByPkFrom(tbl, id) == {u \in tbl : u.id >= id}

\* User.findByPk(id)
findByPk(tbl, id) == {u \in tbl : u.id = id}

\* a result in which a row may come twice, at the cost of another
findAllRepeating(tbl) == [1..Cardinality(tbl) -> tbl]

\* User.findAll(): every row once, in an order the storage chooses
findAll(tbl) ==
  {s \in [1..Cardinality(tbl) -> tbl] : \A i, j \in DOMAIN s : s[i] = s[j] => i = j}

\* a call that has to wait for a second statement takes the first free slot
FreeSlot(p) == pc[p] = "idle" /\ \A q \in Procs : pc[q] = "idle" => p <= q

Init ==
  /\ table = {}
  /\ nextId = 1
  /\ pc = [p \in Procs |-> "idle"]
  /\ user = [p \in Procs |-> NoUser]
  /\ reply = NoReply
  /\ created = 0
  /\ removed = 0

GetUser(id) ==
  /\ reply' = Reply("getUser", "", findByPk(table, id), FALSE, <<>>)
  /\ UNCHANGED <<table, nextId, pc, user, created, removed>>

GetUsers ==
  /\ \E l \in findAll(table) : reply' = Reply("getUsers", "", NoUser, FALSE, l)
  /\ UNCHANGED <<table, nextId, pc, user, created, removed>>

\* an INSERT that replaces the row holding the email instead of failing
createOrReplace(tbl, id, name, email) ==
  {u \in tbl : u.email # email} \cup {User(id, name, email)}

\* User.create({ name, email }): INSERT ... RETURNING; the unique index on
\* email rejects a second row with the same email
create(tbl, id, name, email) ==
  IF EmailTaken(tbl, id, email) THEN tbl ELSE tbl \cup {User(id, name, email)}

CreateUser(name, email) ==
  /\ nextId <= MaxId
  /\ nextId' = nextval(nextId)   \* the sequence moves on even when the INSERT fails
  /\ table' = create(table, nextId, name, email)
  /\ IF EmailTaken(table, nextId, email)
       THEN /\ reply' = Reply("createUser", "ConstraintViolation", NoUser, FALSE, <<>>)
            /\ created' = created
       ELSE /\ reply' = Reply("createUser", "", {User(nextId, name, email)}, FALSE, <<>>)
            /\ created' = created + 1
  /\ UNCHANGED <<pc, user, removed>>

\* the instance findByPk builds from a row: its dataValues, and the values read
\* (_previousDataValues), against which save() decides what changed
Instance(row) == [dataValues |-> row, previous |-> row]

\* the assignments without their `if`
assignAlways(inst, name, email) ==
  [inst EXCEPT !.dataValues.name = name, !.dataValues.email = email]

\* if (name) user.name = name; if (email) user.email = email;
assign(inst, name, email) ==
  [inst EXCEPT !.dataValues.name = IF Truthy(name) THEN name ELSE @,
               !.dataValues.email = IF Truthy(email) THEN email ELSE @]

\* an updateUser that answers a missing row with null instead of throwing
UpdateUserNotFoundNull(id, name, email) ==
  /\ {u \in table : u.id = id} = {}
  /\ reply' = [op |-> "updateUser", err |-> "", user |-> {}, ok |-> FALSE, users |-> <<>>]
  /\ UNCHANGED <<table, nextId, pc, user, created, removed>>

\* updateUser when findByPk finds nothing: throw new Error("User not found")
UpdateUserNotFound(id, name, email) ==
  /\ findByPk(table, id) = NoUser
  /\ reply' = Reply("updateUser", "User not found", NoUser, FALSE, <<>>)
  /\ UNCHANGED <<table, nextId, pc, user, created, removed>>

\* updateUser from findByPk to the call of save(): the two assignments
UpdateUserFind(p, id, name, email) ==
  /\ FreeSlot(p)
  /\ findByPk(table, id) # NoUser
  /\ pc' = [pc EXCEPT ![p] = "save"]
  /\ user' = [user EXCEPT ![p] =
                {assign(Instance(r), name, email) : r \in findByPk(table, id)}]
  /\ reply' = NoReply
  /\ UNCHANGED <<table, nextId, created, removed>>

\* the instance's changed(): the attributes whose value differs from the one read
changed(inst) == {f \in {"name", "email"} : inst.dataValues[f] # inst.previous[f]}

\* save(): UPDATE users SET <changed attributes> WHERE id = <the instance's id>,
\* and no statement at all when nothing changed; an UPDATE that matches no row
\* changes nothing and raises nothing
update(tbl, inst) ==
  {IF u.id = inst.dataValues.id
     THEN [id |-> u.id,
           name |-> IF "name" \in changed(inst) THEN inst.dataValues.name ELSE u.name,
           email |-> IF "email" \in changed(inst) THEN inst.dataValues.email ELSE u.email]
     ELSE u : u \in tbl}

\* the unique index on email rejects the UPDATE
updateRejected(tbl, inst) ==
  /\ "email" \in changed(inst)
  /\ findByPk(tbl, inst.dataValues.id) # NoUser
  /\ EmailTaken(tbl, inst.dataValues.id, inst.dataValues.email)

\* updateUser from the database's execution of save() to `return user`
UpdateUserSave(p) ==
  /\ pc[p] = "save"
  /\ LET inst == CHOOSE u \in user[p] : TRUE
     IN IF updateRejected(table, inst)
          THEN /\ table' = table
               /\ reply' = Reply("updateUser", "ConstraintViolation", NoUser, FALSE, <<>>)
          ELSE /\ table' = update(table, inst)
               /\ reply' = Reply("updateUser", "", {inst.dataValues}, FALSE, <<>>)
  /\ pc' = [pc EXCEPT ![p] = "idle"]
  /\ user' = [user EXCEPT ![p] = NoUser]
  /\ UNCHANGED <<nextId, created, removed>>

\* deleteUser when findByPk finds nothing: return false
DeleteUserNotFound(id) ==
  /\ findByPk(table, id) = NoUser
  /\ reply' = Reply("deleteUser", "", NoUser, FALSE, <<>>)
  /\ UNCHANGED <<table, nextId, pc, user, created, removed>>

\* deleteUser from findByPk to the call of destroy()
DeleteUserFind(p, id) ==
  /\ FreeSlot(p)
  /\ findByPk(table, id) # NoUser
  /\ pc' = [pc EXCEPT ![p] = "destroy"]
  /\ user' = [user EXCEPT ![p] = {Instance(r) : r \in findByPk(table, id)}]
  /\ reply' = NoReply
  /\ UNCHANGED <<table, nextId, created, removed>>

\* a DELETE without its WHERE
destroyAll(tbl, inst) == {}

\* user.destroy(): DELETE FROM users WHERE id = <the instance's id>
destroy(tbl, inst) == {v \in tbl : v.id # inst.dataValues.id}

\* deleteUser from the database's execution of destroy() to `return true`
DeleteUserDestroy(p) ==
  /\ pc[p] = "destroy"
  /\ LET inst == CHOOSE u \in user[p] : TRUE
     IN /\ table' = destroy(table, inst)
        /\ removed' = removed + Cardinality(table \ destroy(table, inst))
  /\ reply' = Reply("deleteUser", "", NoUser, TRUE, <<>>)
  /\ pc' = [pc EXCEPT ![p] = "idle"]
  /\ user' = [user EXCEPT ![p] = NoUser]
  /\ UNCHANGED <<nextId, created>>

\* the two queries
Queries ==
  \/ \E id \in Ids : GetUser(id)
  \/ GetUsers

\* the three mutations: the calls that wait for a second statement take the slots
\* S, and the optional arguments that carry no value are drawn from F
Mutations(S, F) ==
  \/ \E name \in Names, email \in Emails : CreateUser(name, email)
  \/ \E id \in Ids, name \in Names \cup F, email \in Emails \cup F :
       UpdateUserNotFound(id, name, email)
  \/ \E p \in S, id \in Ids, name \in Names \cup F, email \in Emails \cup F :
       UpdateUserFind(p, id, name, email)
  \/ \E p \in S : UpdateUserSave(p)
  \/ \E id \in Ids : DeleteUserNotFound(id)
  \/ \E p \in S, id \in Ids : DeleteUserFind(p, id)
  \/ \E p \in S : DeleteUserDestroy(p)

\* the mutations served concurrently, two updateUser or deleteUser calls in flight
Next == Mutations(Procs, {Undefined})

Spec == Init /\ [][Next]_vars

\* every operation with every kind of argument, one updateUser or deleteUser call
\* in flight at a time
NextSeq == Queries \/ Mutations({1}, Falsy)

SpecSeq == Init /\ [][NextSeq]_vars

\* the mutations served concurrently, every updateUser call supplying a name and
\* an email
NextRace == Mutations(Procs, {})

SpecRace == Init /\ [][NextRace]_vars

\* ------------------------------------------------------------- the claims
Row(tbl, id) == {u \in tbl : u.id = id}
Others(tbl, id) == {u \in tbl : u.id # id}
HasEmail(tbl, e) == {u \in tbl : u.email = e}
IdOf(p) == (CHOOSE u \in user[p] : TRUE).dataValues.id
NoValue(v) == v = Undefined \/ v = Null \/ v = ""

\* C1: no two rows of the table ever have the same email, under every
\* interleaving of the mutations; a createUser, or the save of an updateUser,
\* that would give a row the email of another row answers with a constraint
\* error and leaves the table as it was.
C1_UniqueEmail ==
  [][/\ \A u, v \in table' : u.email = v.email => u = v
     /\ \A n \in Names, e \in Emails :
          CreateUser(n, e) /\ HasEmail(table, e) # {}
            => reply'.err = "ConstraintViolation" /\ table' = table
     /\ \A p \in Procs :
          UpdateUserSave(p)
            => LET inst == CHOOSE u \in user[p] : TRUE
                   e == inst.dataValues.email
               IN (/\ e # inst.previous.email
                   /\ Row(table, IdOf(p)) # {}
                   /\ HasEmail(Others(table, IdOf(p)), e) # {})
                    => reply'.err = "ConstraintViolation" /\ table' = table]_vars

C1_Witness ==
  /\ reply.op = "updateUser"
  /\ reply.err = "ConstraintViolation"
  /\ Cardinality(table) = 2

\* C2: createUser with an email some row already has answers with a constraint
\* error, inserts nothing and leaves every row as it was, so that exactly one row
\* has that email.
C2_DuplicateCreateFails ==
  [][\A n \in Names, e \in Emails :
       CreateUser(n, e) /\ HasEmail(table, e) # {}
         => /\ reply' = Reply("createUser", "ConstraintViolation", NoUser, FALSE, <<>>)
            /\ table' = table
            /\ Cardinality(HasEmail(table', e)) = 1]_vars

C2_Witness ==
  /\ reply.op = "createUser"
  /\ reply.err = "ConstraintViolation"
  /\ table # {}

\* C3: createUser with an email no row has succeeds and returns a record with
\* the name and the email given and an id that is set and is the id of no row of
\* the table; the table afterwards is the table before plus that record.
C3_CreateInserts ==
  [][\A n \in Names, e \in Emails :
       CreateUser(n, e) /\ HasEmail(table, e) = {}
         => /\ reply'.op = "createUser" /\ reply'.err = ""
            /\ \E r \in reply'.user :
                 /\ reply'.user = {r}
                 /\ r.name = n /\ r.email = e
                 /\ r.id >= 1
                 /\ Row(table, r.id) = {}
                 /\ table' = table \cup {r}
                 /\ Cardinality(table') = Cardinality(table) + 1]_vars

C3_Witness ==
  /\ reply.op = "createUser"
  /\ reply.err = ""
  /\ reply.user \subseteq table
  /\ Cardinality(table) = 2

C5_UpdateNotFound ==
  [][\A id \in Ids :
       Row(table, id) = {} =>
         \A n \in OptNames, e \in OptEmails :
           (UpdateUserNotFound(id, n, e) \/ \E p \in Procs : UpdateUserFind(p, id, n, e))
             => /\ reply' = Reply("updateUser", "User not found", NoUser, FALSE, <<>>)
                /\ table' = table
                /\ pc' = pc]_vars

C5_Witness ==
  /\ reply.op = "updateUser"
  /\ reply.err = "User not found"
  /\ table # {}

\* C6: deleteUser on an id that has a row goes on to destroy(), which returns
\* true, removes the row with that id and no other; a row once gone stays gone,
\* so a later getUser finds nothing.  deleteUser on an id without a row returns
\* false, without an error, and changes nothing.
C6_Delete ==
  [][/\ \A p \in Procs :
          DeleteUserDestroy(p)
            => /\ reply' = Reply("deleteUser", "", NoUser, TRUE, <<>>)
               /\ Row(table', IdOf(p)) = {}
               /\ Others(table', IdOf(p)) = Others(table, IdOf(p))
     /\ \A id \in Ids :
          (DeleteUserNotFound(id) \/ \E p \in Procs : DeleteUserFind(p, id))
            => /\ table' = table
               /\ IF Row(table, id) = {}
                    THEN reply' = Reply("deleteUser", "", NoUser, FALSE, <<>>) /\ pc' = pc
                    ELSE \E p \in Procs :
                           /\ pc[p] = "idle" /\ pc'[p] = "destroy"
                           /\ \E inst \in user'[p] : inst.dataValues.id = id
     /\ \A id \in Ids :
          id < nextId /\ Row(table, id) = {} => findByPk(table', id) = NoUser]_vars

C6_Witness ==
  /\ reply.op = "deleteUser"
  /\ reply.ok
  /\ removed = 1
  /\ Cardinality(table) = 1

\* C7: getUser returns the row whose id is the argument when there is one and
\* null, without an error, when there is none; it changes nothing.
C7_GetUser ==
  [][\A id \in Ids :
       GetUser(id)
         => /\ reply'.op = "getUser" /\ reply'.err = ""
            /\ reply'.user = Row(table, id)
            /\ Cardinality(reply'.user) <= 1
            /\ id >= nextId => reply'.user = NoUser
            /\ table' = table /\ nextId' = nextId /\ pc' = pc]_vars

C7_Witness ==
  /\ reply.op = "getUser"
  /\ reply.user # NoUser
  /\ reply.user \subseteq table
  /\ Cardinality(table) = 2

C7_WitnessNull ==
  reply.op = "getUser" /\ reply.user = NoUser /\ table # {}

\* C8: getUsers returns every row of the table exactly once, the empty sequence
\* for the empty table, without an error; after N successful createUser calls
\* and no delete it returns N records with pairwise distinct ids; it changes
\* nothing.
C8_GetUsers ==
  [][GetUsers
       => /\ reply'.op = "getUsers" /\ reply'.err = ""
          /\ {reply'.users[i] : i \in DOMAIN reply'.users} = table
          /\ Len(reply'.users) = Cardinality(table)
          /\ table = {} => reply'.users = <<>>
          /\ removed = 0 => Len(reply'.users) = created
          /\ \A i, j \in DOMAIN reply'.users :
               reply'.users[i].id = reply'.users[j].id => i = j
          /\ table' = table /\ nextId' = nextId /\ pc' = pc]_vars

C8_Witness ==
  /\ reply.op = "getUsers"
  /\ Len(reply.users) = 2
  /\ created = 2
  /\ removed = 0

\* C9: when two updateUser calls on one id overlap, the save that runs last
\* decides: once it has run, the row holds, in every field both calls supplied,
\* the value its call supplied; and a save is turned down only for an email that
\* another row holds, never because of the other call on the same id.  (Under
\* SpecRace every call supplies both fields.)
C9_LastWriterWins ==
  [][\A p \in Procs :
       UpdateUserSave(p) /\ Row(table, IdOf(p)) # {}
         => LET inst == CHOOSE u \in user[p] : TRUE
            IN IF reply'.err = ""
                 THEN Row(table', IdOf(p)) = {inst.dataValues}
                 ELSE HasEmail(Others(table, IdOf(p)), inst.dataValues.email) # {}]_vars

\* C10: a row that was deleted never comes back, and an updateUser that read
\* the row before a concurrent deleteUser removed it does not return as a
\* success a record that the table does not hold.
C10_NoUpdateAfterDelete ==
  [][/\ \A id \in Ids : id < nextId /\ Row(table, id) = {} => Row(table', id) = {}
     /\ \A p \in Procs :
          UpdateUserSave(p) /\ reply'.err = ""
            => \A r \in reply'.user : Row(table', r.id) # {}]_vars
====
